---- MODULE Spec2Model ----
(***************************************************************************)
(* Spectrum notch filter nodes of src/nodes.py.                            *)
(*                                                                         *)
(* SpectrumNotchAutoNode.apply_notch detects the local maxima of every     *)
(* frame of a batch and masks a disk around each of them;                  *)
(* SpectrumNotchManualNode.apply_manual_notch masks the disks listed in a  *)
(* JSON text.  The peak_positions output of the first node can be wired    *)
(* into the notch_points input of the second.                              *)
(*                                                                         *)
(* Numbers.  Pixel values are integers.  A mask value is an integer in     *)
(* units of 1/One, so One stands for the float 1.0 and `frame * (1 - mask)'*)
(* is kept as frame * (One - mask), in the same units.  The luminance of a *)
(* colour frame is kept in thousandths (299 R + 587 G + 114 B).  A         *)
(* relative threshold is a fraction <<num, den>>.  The Gaussian kernel of  *)
(* scipy.ndimage.gaussian_filter is tabulated in thousandths.              *)
(*                                                                         *)
(* The preview image of apply_notch (_annotate_preview) and the temporary  *)
(* PNG of apply_manual_notch (_save_temp_image) are outputs that neither   *)
(* node reads back; they are not part of the state.                        *)
(***************************************************************************)
EXTENDS Integers, Sequences, FiniteSets, TLC

VARIABLES
    spectrum,     \* the IMAGE batch both nodes receive: [B, H, W, C, px]
    auto_args,    \* widget values of SpectrumNotchAuto
    manual_args,  \* widget values of SpectrumNotchManual (notch_points is a text)
    auto_out,     \* what apply_notch returned
    manual_out,   \* what apply_manual_notch returned, or that it raised
    pc            \* "ready", "auto_done", "wired", "round_done", "manual_done"

vars == <<spectrum, auto_args, manual_args, auto_out, manual_out, pc>>

-----------------------------------------------------------------------------
(* Bounds of the model. *)

MaxDim == 3        \* frames are (MaxDim-1) x (MaxDim+1) or MaxDim x MaxDim
MaxVal == 2        \* a spike is 1 or MaxVal; a ramp runs over 0 .. MaxVal
MaxRadius == 2     \* notch_radius and the r of a point are 0 .. MaxRadius
MaxDC == 2         \* protect_dc is 0 .. MaxDC

-----------------------------------------------------------------------------
(* Arithmetic helpers. *)

One == 1000000

Max2(a, b) == IF a >= b THEN a ELSE b
Min2(a, b) == IF a <= b THEN a ELSE b

\* f itself (f @@ <<>> = f), as an array whose cells are computed once; the
\* arrays of the code are values, not expressions recomputed at every read.
Array(f) == f @@ <<>>

SetMax(S) == CHOOSE m \in S : \A x \in S : x <= m

\* scipy.ndimage boundary mode 'reflect' (d c b a | a b c d | d c b a): the
\* index of the array cell that position i of the extended array reads.
Reflect(i, n) ==
    LET m == i % (2 * n)
    IN  IF m < n THEN m ELSE 2 * n - 1 - m

Pixels(H, W) == (0 .. H - 1) \X (0 .. W - 1)

Voxels(H, W, C) == (0 .. H - 1) \X (0 .. W - 1) \X (0 .. C - 1)

\* The pixels of an H x W array in raster (row-major) order.
Raster(H, W) == [k \in 1 .. H * W |-> <<(k - 1) \div W, (k - 1) % W>>]

-----------------------------------------------------------------------------
(* Common utilities. *)

\* frame: [ (0..H-1) \X (0..W-1) \X (0..C-1) -> Int ]
_to_gray(frame, H, W, C) ==
    [p \in Pixels(H, W) |->
        IF C >= 3
        THEN 299 * frame[p[1], p[2], 0] + 587 * frame[p[1], p[2], 1]
                 + 114 * frame[p[1], p[2], 2]
        ELSE frame[p[1], p[2], 0]]

\* circle = (X - c) ** 2 + (Y - r) ** 2 < radius ** 2
InCircleOpen(row, col, r, c, radius) ==
    (col - c) * (col - c) + (row - r) * (row - r) < radius * radius

\* circle = (X - c) ** 2 + (Y - r) ** 2 <= radius ** 2
InCircle(row, col, r, c, radius) ==
    (col - c) * (col - c) + (row - r) * (row - r) <= radius * radius

\* mask[circle] += 1.0
PaintCircleAdding(mask, H, W, r, c, radius) ==
    [p \in Pixels(H, W) |->
        IF InCircle(p[1], p[2], r, c, radius) THEN mask[p] + One ELSE mask[p]]

\* mask[circle] = 1.0
PaintCircle(mask, H, W, r, c, radius) ==
    [p \in Pixels(H, W) |->
        IF InCircle(p[1], p[2], r, c, radius) THEN One ELSE mask[p]]

\* The loop over the circles: circles is a sequence of <<row, col, radius>>,
\* painted in order onto mask.
RECURSIVE PaintCircles(_, _, _, _, _)
PaintCircles(mask, H, W, circles, i) ==
    IF i > Len(circles)
    THEN mask
    ELSE PaintCircles(
             PaintCircle(mask, H, W, circles[i][1], circles[i][2], circles[i][3]),
             H, W, circles, i + 1)

\* scipy _gaussian_kernel1d(sigma, 0, int(4.0 * sigma + 0.5)), in thousandths:
\* entry k + 1 is the weight of offsets k and -k.
GaussKernel(sigma) ==
    CASE sigma = 1 -> <<400, 242, 54, 4, 0>>
      [] sigma = 2 -> <<200, 176, 121, 65, 27, 9, 2, 0, 0>>

Abs(k) == IF k < 0 THEN -k ELSE k

\* scipy correlate1d along one axis (0 = rows, 1 = columns), mode 'reflect'.
Correlate1d(a, H, W, sigma, axis) ==
    LET w  == GaussKernel(sigma)
        lw == Len(w) - 1
        Tap(p, k) ==
            IF axis = 0
            THEN a[Reflect(p[1] + k, H), p[2]]
            ELSE a[p[1], Reflect(p[2] + k, W)]
        RECURSIVE Sum(_, _)
        Sum(p, k) ==
            IF k > lw THEN 0 ELSE w[Abs(k) + 1] * Tap(p, k) + Sum(p, k + 1)
    IN  [p \in Pixels(H, W) |-> Sum(p, -lw) \div 1000]

\* gaussian_filter(mask, sigma): one pass per axis.
gaussian_filter(mask, H, W, sigma) ==
    Correlate1d(Array(Correlate1d(mask, H, W, sigma, 0)), H, W, sigma, 1)

\* np.clip(mask, 0.0, 1.0)
Clip(mask, H, W) ==
    [p \in Pixels(H, W) |-> Min2(Max2(mask[p], 0), One)]

\* if feather > 0: mask = clip(gaussian_filter(mask, sigma=feather))
Feather(mask, H, W, feather) ==
    IF feather > 0
    THEN Clip(gaussian_filter(mask, H, W, feather), H, W)
    ELSE mask

ZeroMask(H, W) == [p \in Pixels(H, W) |-> 0]

\* peaks: a sequence of <<row, col>>
_build_circular_mask(H, W, peaks, radius, feather) ==
    LET circles == [i \in 1 .. Len(peaks) |-> <<peaks[i][1], peaks[i][2], radius>>]
        mask    == Array(PaintCircles(ZeroMask(H, W), H, W, circles, 1))
    IN  Feather(mask, H, W, feather)

\* A mask applied as a gain instead of a suppression.
ApplyMaskAsGain(frame, mask, H, W, C) ==
    [q \in Voxels(H, W, C) |-> frame[q] * mask[q[1], q[2]]]

\* filtered = frame * (1.0 - mask[:, :, np.newaxis])
ApplyMask(frame, mask, H, W, C) ==
    [q \in Voxels(H, W, C) |-> frame[q] * (One - mask[q[1], q[2]])]

\* mask_img = np.stack([mask, mask, mask], axis=-1)
MaskImage(mask, H, W) ==
    [q \in Voxels(H, W, 3) |-> mask[q[1], q[2]]]

-----------------------------------------------------------------------------
(* JSON texts.  A text is a sequence of tokens [t, s, n]: a punctuation     *)
(* mark, a string literal, an integer literal, null, or a token that is no *)
(* JSON at all ("bad").  A Python value is a record [kind, n, s, keys,     *)
(* items]: kind is "int", "str", "none", "list" or "dict".                 *)

Punct(ch) == [t |-> ch, s |-> "", n |-> 0]
StrTok(str) == [t |-> "str", s |-> str, n |-> 0]
IntTok(i) == [t |-> "int", s |-> "", n |-> i]
NullTok == Punct("null")
BadTok == Punct("bad")

PyInt(i) == [kind |-> "int", n |-> i, s |-> "", keys |-> <<>>, items |-> <<>>]
PyStr(str) == [kind |-> "str", n |-> 0, s |-> str, keys |-> <<>>, items |-> <<>>]
PyNone == [kind |-> "none", n |-> 0, s |-> "", keys |-> <<>>, items |-> <<>>]
PyList(items) == [kind |-> "list", n |-> 0, s |-> "", keys |-> <<>>, items |-> items]
PyDict(keys, items) ==
    [kind |-> "dict", n |-> 0, s |-> "", keys |-> keys, items |-> items]

\* json.dumps of a value built from ints, strings, None, lists and dicts.
RECURSIVE json_dumps(_)
RECURSIVE DumpItems(_, _)
RECURSIVE DumpMembers(_, _, _)
DumpItems(items, i) ==
    IF i > Len(items) THEN <<>>
    ELSE (IF i > 1 THEN <<Punct(",")>> ELSE <<>>)
             \o json_dumps(items[i]) \o DumpItems(items, i + 1)
DumpMembers(keys, items, i) ==
    IF i > Len(keys) THEN <<>>
    ELSE (IF i > 1 THEN <<Punct(",")>> ELSE <<>>)
             \o <<StrTok(keys[i]), Punct(":")>> \o json_dumps(items[i])
             \o DumpMembers(keys, items, i + 1)
json_dumps(v) ==
    CASE v.kind = "int"  -> <<IntTok(v.n)>>
      [] v.kind = "str"  -> <<StrTok(v.s)>>
      [] v.kind = "none" -> <<NullTok>>
      [] v.kind = "list" -> <<Punct("[")>> \o DumpItems(v.items, 1) \o <<Punct("]")>>
      [] v.kind = "dict" ->
            <<Punct("{")>> \o DumpMembers(v.keys, v.items, 1) \o <<Punct("}")>>

\* json.loads: a parse result is [ok, val, next]; next is the index of the
\* first token after the value.  ok = FALSE stands for json.JSONDecodeError.
ParseFail == [ok |-> FALSE, val |-> PyNone, next |-> 0]
ParseOk(v, next) == [ok |-> TRUE, val |-> v, next |-> next]

TokAt(toks, i) == IF i <= Len(toks) THEN toks[i].t ELSE "eof"

RECURSIVE ParseValue(_, _)
RECURSIVE ParseElems(_, _, _)
RECURSIVE ParseMembers(_, _, _, _)
\* after "[" or ",": a value, then "," or "]"
ParseElems(toks, i, acc) ==
    LET e == ParseValue(toks, i)
    IN  IF ~e.ok THEN ParseFail
        ELSE CASE TokAt(toks, e.next) = "," ->
                      ParseElems(toks, e.next + 1, Append(acc, e.val))
               [] TokAt(toks, e.next) = "]" ->
                      ParseOk(PyList(Append(acc, e.val)), e.next + 1)
               [] OTHER -> ParseFail
\* after "{" or ",": a string, ":", a value, then "," or "}"
ParseMembers(toks, i, keys, items) ==
    IF TokAt(toks, i) # "str" \/ TokAt(toks, i + 1) # ":" THEN ParseFail
    ELSE LET e == ParseValue(toks, i + 2)
         IN  IF ~e.ok THEN ParseFail
             ELSE CASE TokAt(toks, e.next) = "," ->
                           ParseMembers(toks, e.next + 1,
                                        Append(keys, toks[i].s), Append(items, e.val))
                    [] TokAt(toks, e.next) = "}" ->
                           ParseOk(PyDict(Append(keys, toks[i].s),
                                          Append(items, e.val)), e.next + 1)
                    [] OTHER -> ParseFail
ParseValue(toks, i) ==
    CASE TokAt(toks, i) = "int"  -> ParseOk(PyInt(toks[i].n), i + 1)
      [] TokAt(toks, i) = "str"  -> ParseOk(PyStr(toks[i].s), i + 1)
      [] TokAt(toks, i) = "null" -> ParseOk(PyNone, i + 1)
      [] TokAt(toks, i) = "["    ->
            IF TokAt(toks, i + 1) = "]" THEN ParseOk(PyList(<<>>), i + 2)
            ELSE ParseElems(toks, i + 1, <<>>)
      [] TokAt(toks, i) = "{"    ->
            IF TokAt(toks, i + 1) = "}" THEN ParseOk(PyDict(<<>>, <<>>), i + 2)
            ELSE ParseMembers(toks, i + 1, <<>>, <<>>)
      [] OTHER -> ParseFail

\* json.loads(text): the whole text must be one value.
json_loads(toks) ==
    LET e == ParseValue(toks, 1)
    IN  IF e.ok /\ e.next = Len(toks) + 1 THEN e ELSE ParseFail

\* dict.get(key, default): the last member named key wins.
DictGet(d, key, default) ==
    LET hits == {i \in 1 .. Len(d.keys) : d.keys[i] = key}
    IN  IF hits = {} THEN default ELSE d.items[SetMax(hits)]

\* The decimal strings the model's texts use, with their values.
DecimalStrings == [s \in {"0", "1", "2"} |->
                     CASE s = "0" -> 0 [] s = "1" -> 1 [] s = "2" -> 2]

\* int(v): [ok, n]; ok = FALSE stands for the TypeError or ValueError that
\* int() raises on None, a list, a dict or a string that is no number.
int(v) ==
    CASE v.kind = "int" -> [ok |-> TRUE, n |-> v.n]
      [] v.kind = "str" /\ v.s \in DOMAIN DecimalStrings ->
            [ok |-> TRUE, n |-> DecimalStrings[v.s]]
      [] OTHER -> [ok |-> FALSE, n |-> 0]

-----------------------------------------------------------------------------
(* Node 1: SpectrumNotchAutoNode. *)

\* scipy maximum_filter1d along one axis (0 = rows, 1 = columns), mode
\* 'reflect', origin 0: position i reads the offsets lo .. hi.
MaxFilter1d(a, H, W, lo, hi, axis) ==
    [p \in Pixels(H, W) |->
        SetMax({IF axis = 0
                THEN a[Reflect(p[1] + k, H), p[2]]
                ELSE a[p[1], Reflect(p[2] + k, W)] : k \in lo .. hi})]

\* A window that takes size for its half-width.
maximum_filter_wide(gray, H, W, size) ==
    MaxFilter1d(Array(MaxFilter1d(gray, H, W, -size, size, 0)), H, W, -size, size, 1)

\* scipy maximum_filter(gray, size=size): one maximum_filter1d per axis, over
\* the offsets -(size // 2) .. size - 1 - size // 2.
maximum_filter(gray, H, W, size) ==
    LET lo == -(size \div 2)
        hi == size - 1 - (size \div 2)
    IN  MaxFilter1d(Array(MaxFilter1d(gray, H, W, lo, hi, 0)), H, W, lo, hi, 1)

\* A strict comparison with the threshold.
AboveThresholdStrict(v, threshold_rel, gmax) ==
    v * threshold_rel[2] > threshold_rel[1] * gmax

\* gray >= threshold_rel * gray.max(), threshold_rel = num / den
AboveThreshold(v, threshold_rel, gmax) ==
    v * threshold_rel[2] >= threshold_rel[1] * gmax

\* A detection whose DC disk is centred at (W // 2, H // 2).
DetectPeaksSwappedCentre(gray, H, W, threshold_rel, min_distance, protect_dc) ==
    LET nbhd == Array(maximum_filter(gray, H, W, Max2(3, min_distance * 2 + 1)))
        gmax == SetMax({gray[p] : p \in Pixels(H, W)})
        local_max(p) ==
            /\ gray[p] = nbhd[p]
            /\ AboveThreshold(gray[p], threshold_rel, gmax)
            /\ ~(protect_dc > 0 /\ InCircle(p[1], p[2], W \div 2, H \div 2, protect_dc))
    IN  SelectSeq(Raster(H, W), local_max)

\* The detection of one frame: local maxima, DC exclusion, argwhere.
DetectPeaks(gray, H, W, threshold_rel, min_distance, protect_dc) ==
    LET nbhd == Array(maximum_filter(gray, H, W, Max2(3, min_distance * 2 + 1)))
        gmax == SetMax({gray[p] : p \in Pixels(H, W)})
        cy   == H \div 2
        cx   == W \div 2
        local_max(p) ==
            /\ gray[p] = nbhd[p]
            /\ AboveThreshold(gray[p], threshold_rel, gmax)
            /\ ~(protect_dc > 0 /\ InCircle(p[1], p[2], cy, cx, protect_dc))
    IN  SelectSeq(Raster(H, W), local_max)

\* A record whose x is the row and whose y is the column.
PeakRecordTransposed(p, notch_radius) ==
    PyDict(<<"x", "y", "r">>, <<PyInt(p[1]), PyInt(p[2]), PyInt(notch_radius)>>)

\* {"x": int(p[1]), "y": int(p[0]), "r": notch_radius}
PeakRecord(p, notch_radius) ==
    PyDict(<<"x", "y", "r">>, <<PyInt(p[2]), PyInt(p[1]), PyInt(notch_radius)>>)

\* all_peaks set in every iteration, so that the last frame's stay.
AllPeaksOfLastFrame(peaks, B, notch_radius) ==
    [i \in 1 .. Len(peaks[B - 1]) |-> PeakRecord(peaks[B - 1][i], notch_radius)]

\* all_peaks: set in the iteration b == 0 of the loop over the batch.
AllPeaks(peaks, B, notch_radius) ==
    [i \in 1 .. Len(peaks[0]) |-> PeakRecord(peaks[0][i], notch_radius)]

\* One iteration of the loop over the batch.
AutoFrame(frame, H, W, C, a) ==
    LET gray  == Array(_to_gray(frame, H, W, C))
        peaks == DetectPeaks(gray, H, W, a.threshold_rel, a.min_distance,
                             a.protect_dc)
        mask  == Array(_build_circular_mask(H, W, peaks, a.notch_radius, a.feather))
    IN  [filtered |-> ApplyMask(frame, mask, H, W, C),
         mask |-> MaskImage(mask, H, W),
         peaks |-> peaks]

\* sp: the batch [B, H, W, C, px]; a: the widget values.  peaks is the local
\* variable of that name, kept for every iteration.
apply_notch(sp, a) ==
    LET out == Array([b \in 0 .. sp.B - 1 |-> AutoFrame(sp.px[b], sp.H, sp.W, sp.C, a)])
        peaks == [b \in 0 .. sp.B - 1 |-> out[b].peaks]
    IN  [filtered |-> [b \in 0 .. sp.B - 1 |-> out[b].filtered],
         mask |-> [b \in 0 .. sp.B - 1 |-> out[b].mask],
         peaks |-> peaks,
         peak_positions |->
             json_dumps(PyList(AllPeaks(peaks, sp.B, a.notch_radius)))]

-----------------------------------------------------------------------------
(* Node 2: SpectrumNotchManualNode. *)

\* try: points = json.loads(notch_points); not a list -> []; except: []
ParsePoints(notch_points) ==
    LET e == json_loads(notch_points)
    IN  IF e.ok /\ e.val.kind = "list" THEN e.val.items ELSE <<>>

\* int(p.get(key, default)) of one point: [ok, n]; ok = FALSE when p has no
\* get (it is no dict: AttributeError) or int() raises.
PointField(p, key, default) ==
    IF p.kind # "dict" THEN [ok |-> FALSE, n |-> 0]
    ELSE int(DictGet(p, key, PyInt(default)))

DefaultRadius == 8

\* Does building peaks and radii from the points raise?
PointsRaise(points) ==
    \E i \in 1 .. Len(points) :
        \/ ~PointField(points[i], "y", 0).ok
        \/ ~PointField(points[i], "x", 0).ok
        \/ ~PointField(points[i], "r", DefaultRadius).ok

\* zip(peaks, radii): <<row, col, radius>> of every point
PointCircles(points) ==
    [i \in 1 .. Len(points) |->
        <<PointField(points[i], "y", 0).n, PointField(points[i], "x", 0).n,
          PointField(points[i], "r", DefaultRadius).n>>]

\* A mask whose DC disk is kept, as the automatic node keeps it.
ManualMaskKeepingDC(H, W, points, feather, protect_dc) ==
    LET circles == Array(PaintCircles(ZeroMask(H, W), H, W, PointCircles(points), 1))
        dc == IF protect_dc > 0
              THEN [p \in Pixels(H, W) |->
                       IF InCircle(p[1], p[2], H \div 2, W \div 2, protect_dc)
                       THEN 0 ELSE circles[p]]
              ELSE circles
    IN  Feather(dc, H, W, feather)

\* The mask of one frame: the point circles, the DC disk, the feathering.
ManualMask(H, W, points, feather, protect_dc) ==
    LET circles == Array(PaintCircles(ZeroMask(H, W), H, W, PointCircles(points), 1))
        dc == IF protect_dc > 0
              THEN PaintCircle(circles, H, W, H \div 2, W \div 2, protect_dc)
              ELSE circles
    IN  Feather(dc, H, W, feather)

\* sp: the batch; m: the widget values.  status "raised" is an exception
\* leaving apply_manual_notch; the batch has B >= 1 frames, so the loop
\* body runs.
apply_manual_notch(sp, m) ==
    LET points == ParsePoints(m.notch_points)
        mask   == Array(ManualMask(sp.H, sp.W, points, m.feather, m.protect_dc))
    IN  IF PointsRaise(points)
        THEN [status |-> "raised", filtered |-> <<>>, mask |-> <<>>]
        ELSE [status |-> "returned",
              filtered |-> [b \in 0 .. sp.B - 1 |->
                               ApplyMask(sp.px[b], mask, sp.H, sp.W, sp.C)],
              mask |-> [b \in 0 .. sp.B - 1 |-> MaskImage(mask, sp.H, sp.W)]]

-----------------------------------------------------------------------------
(* The state machine: a graph holding both nodes is executed. *)

\* SpectrumNotchAuto executes.
ApplyNotch ==
    /\ pc = "ready"
    /\ auto_out' = apply_notch(spectrum, auto_args)
    /\ pc' = "auto_done"
    /\ UNCHANGED <<spectrum, auto_args, manual_args, manual_out>>

\* The peak_positions output is wired into the notch_points input.
ConnectPeaks ==
    /\ pc = "auto_done"
    /\ manual_args' = [manual_args EXCEPT !.notch_points = auto_out.peak_positions]
    /\ pc' = "wired"
    /\ UNCHANGED <<spectrum, auto_args, auto_out, manual_out>>

\* SpectrumNotchManual executes, on its own text or on the wired one.
ApplyManualNotch ==
    /\ pc \in {"ready", "wired"}
    /\ manual_out' = apply_manual_notch(spectrum, manual_args)
    /\ pc' = IF pc = "wired" THEN "round_done" ELSE "manual_done"
    /\ UNCHANGED <<spectrum, auto_args, manual_args, auto_out>>

\* The batches: B frames of H x W x C pixels, all Background but for the
\* pixels of spikes, a set of <<b, row, col, channel, value>>.
Batch(B, H, W, C, bg, spikes) ==
    [B |-> B, H |-> H, W |-> W, C |-> C,
     px |-> [b \in 0 .. B - 1 |->
                [q \in Voxels(H, W, C) |->
                    IF \E s \in spikes : <<s[1], s[2], s[3], s[4]>> = <<b>> \o q
                    THEN (CHOOSE s \in spikes :
                              <<s[1], s[2], s[3], s[4]>> = <<b>> \o q)[5]
                    ELSE bg]]]

SpikeSpace(B, H, W, C) ==
    (0 .. B - 1) \X (0 .. H - 1) \X (0 .. W - 1) \X (0 .. C - 1) \X {1, MaxVal}

SamePlace(s, t) == <<s[1], s[2], s[3], s[4]>> = <<t[1], t[2], t[3], t[4]>>

\* No spike or one spike.
OneSpike(B, H, W, C) == {{}} \cup {{s} : s \in SpikeSpace(B, H, W, C)}

\* No spike, one spike, or two spikes at different places.
TwoSpikes(B, H, W, C) ==
    OneSpike(B, H, W, C)
        \cup UNION {{{s, t} : t \in {u \in SpikeSpace(B, H, W, C) :
                                          ~SamePlace(s, u)}} :
                        s \in SpikeSpace(B, H, W, C)}

\* <<H, W>>: a wide frame, whose centre row and centre column differ, and a
\* square one.
Shapes == {<<MaxDim - 1, MaxDim + 1>>, <<MaxDim, MaxDim>>}
Thresholds == {<<1, 2>>, <<1, 1>>}
\* min_distance: 0 and 1 give the window of side 3, 2 the window of side 5.
Distances == {0, 1, 2}
\* <<B, C>>: one gray frame, or two colour frames.
BatchKinds == {<<1, 1>>, <<2, 3>>}
Feathers == {0, 1}

EmptyArray == <<Punct("["), Punct("]")>>

NoAutoOut == [filtered |-> <<>>, mask |-> <<>>, peaks |-> <<>>,
              peak_positions |-> <<>>]
NoManualOut == [status |-> "none", filtered |-> <<>>, mask |-> <<>>]

Start(sp, a, m) ==
    /\ spectrum = sp
    /\ auto_args = a
    /\ manual_args = m
    /\ auto_out = NoAutoOut
    /\ manual_out = NoManualOut
    /\ pc = "ready"

\* Gray single frames with up to two spikes, under every detection setting.
DetectionInputs ==
    \E sh \in Shapes :
      \E sp \in {Batch(1, sh[1], sh[2], 1, 0, k) : k \in TwoSpikes(1, sh[1], sh[2], 1)}
                 \cup {Batch(1, sh[1], sh[2], 1, -1, k) :
                           k \in OneSpike(1, sh[1], sh[2], 1)} :
        \E a \in [threshold_rel : Thresholds, min_distance : Distances,
                   notch_radius : {1}, protect_dc : 0 .. MaxDC, feather : {0}] :
          Start(sp, a, [notch_points |-> EmptyArray, feather |-> 0, protect_dc |-> 0])

\* One gray frame or two colour frames, with up to one spike, under
\* every mask setting; the manual node has the feather of the automatic one
\* and its protect_dc, or none.
MaskInputs ==
    \E sh \in Shapes, bc \in BatchKinds :
      \E sp \in {Batch(bc[1], sh[1], sh[2], bc[2], 0, k) :
                    k \in OneSpike(bc[1], sh[1], sh[2], bc[2])} :
        \E a \in [threshold_rel : {<<1, 2>>}, min_distance : {1},
                   notch_radius : 1 .. MaxRadius, protect_dc : 0 .. MaxDC,
                   feather : Feathers] :
          \E dc \in {0, a.protect_dc} :
            Start(sp, a, [notch_points |-> EmptyArray, feather |-> a.feather,
                          protect_dc |-> dc])

Init == DetectionInputs \/ MaskInputs

\* Batches whose pixels all differ from their neighbours.
Ramp(B, H, W, C) ==
    [B |-> B, H |-> H, W |-> W, C |-> C,
     px |-> [b \in 0 .. B - 1 |->
                [q \in Voxels(H, W, C) |->
                    (b + q[1] + 2 * q[2] + q[3]) % (MaxVal + 1)]]]

Ramps == {Ramp(bc[1], sh[1], sh[2], bc[2]) : sh \in Shapes, bc \in BatchKinds}

\* A point record holding the members named in keys, in the order x, y, r.
PointDict(keys, x, y, r) ==
    LET all == <<"x", "y", "r">>
        val == <<PyInt(x), PyInt(y), PyInt(r)>>
        idx == SelectSeq(<<1, 2, 3>>, LAMBDA i : all[i] \in keys)
    IN  PyDict([i \in 1 .. Len(idx) |-> all[idx[i]]],
               [i \in 1 .. Len(idx) |-> val[idx[i]]])

\* Centres inside the frame, on its border and outside it.
Coords == -1 .. MaxDim + 1
Inside == 0 .. MaxDim - 1

\* One point, with any of its members absent.
OnePoint ==
    {<<PointDict(keys, x, y, r)>> :
        keys \in SUBSET {"x", "y", "r"}, x \in Coords, y \in Coords, r \in 0 .. MaxRadius}

\* Two points inside the frame: overlapping, touching or apart.
TwoPoints ==
    {<<PointDict({"x", "y", "r"}, p[1], p[2], r), PointDict({"x", "y", "r"}, q[1], q[2], 1)>> :
        p \in Inside \X Inside, q \in Inside \X Inside, r \in 1 .. MaxRadius}

PointTexts == {json_dumps(PyList(l)) : l \in {<<>>} \cup OnePoint \cup TwoPoints}

\* Texts that are no JSON.
BrokenTexts ==
    {<<>>,
     <<Punct("{"), BadTok>>,
     <<Punct("[")>>,
     <<Punct("["), IntTok(1), Punct(","), Punct("]")>>,
     <<Punct("[")>> \o json_dumps(PointDict({"x", "y", "r"}, 1, 1, 1)),
     <<Punct("["), Punct("]"), Punct("]")>>}

\* JSON values that are no array.
NonArrayTexts ==
    {json_dumps(v) : v \in {PointDict({"x", "y", "r"}, 1, 1, 1), PyInt(1),
                             PyStr("abc"), PyNone}}

\* Arrays whose elements are no point records with integer members.
NonRecordTexts ==
    {json_dumps(PyList(l)) :
        l \in {<<PyInt(1)>>, <<PyStr("abc")>>, <<PyNone>>,
               <<PyList(<<PyInt(1), PyInt(1)>>)>>,
               <<PointDict({"x", "y", "r"}, 1, 1, 1), PyInt(1)>>,
               <<PyDict(<<"x">>, <<PyStr("abc")>>)>>,
               <<PyDict(<<"y">>, <<PyNone>>)>>,
               <<PyDict(<<"r">>, <<PyList(<<PyInt(1)>>)>>)>>,
               <<PyDict(<<"x", "y", "r">>, <<PyStr("1"), PyStr("1"), PyStr("0")>>)>>}}

\* The manual node on every text; the automatic node on its defaults.
TextInputs ==
    \E sp \in Ramps :
      \E text \in PointTexts \cup BrokenTexts \cup NonArrayTexts \cup NonRecordTexts :
        \E m \in [notch_points : {text}, feather : Feathers, protect_dc : 0 .. MaxDC] :
          Start(sp, [threshold_rel |-> <<1, 2>>, min_distance |-> 1,
                     notch_radius |-> 1, protect_dc |-> 0, feather |-> 0], m)

\* The automatic node's mask builder on every radius, radius 0 included.
BuilderInputs ==
    \E sp \in Ramps :
      \E a \in [threshold_rel : Thresholds, min_distance : Distances,
                 notch_radius : 0 .. MaxRadius, protect_dc : {0}, feather : Feathers] :
        Start(sp, a, [notch_points |-> EmptyArray, feather |-> 0, protect_dc |-> 0])

InitManual == TextInputs \/ BuilderInputs

\* The scenarios of a 64 x 64 single-channel frame that is zero but for one
\* sample of 1: threshold_rel 0.5, min_distance 4, notch_radius 3,
\* protect_dc 0 or 20, the sample at (10, 10) or elsewhere.
ScenarioInputs ==
    \E row \in {10, 32}, col \in {10, 32, 54} :
      \E a \in [threshold_rel : {<<1, 2>>}, min_distance : {4}, notch_radius : {3},
                 protect_dc : {0, 20}, feather : Feathers] :
        Start(Batch(1, 64, 64, 1, 0, {<<0, row, col, 0, 1>>}), a,
              [notch_points |-> EmptyArray, feather |-> a.feather,
               protect_dc |-> a.protect_dc])

InitScenario == ScenarioInputs

Next == ApplyNotch \/ ConnectPeaks \/ ApplyManualNotch

Spec == Init /\ [][Next]_vars

SpecManual == InitManual /\ [][Next]_vars

SpecScenario == InitScenario /\ [][Next]_vars

-----------------------------------------------------------------------------
(* What the claims speak of. *)

\* auto_out is what apply_notch returned; it stays so in the later states.
AutoDone == pc = "auto_done"
ManualReturned ==
    pc \in {"manual_done", "round_done"} /\ manual_out.status = "returned"

Frames == 0 .. spectrum.B - 1
FramePixels == Pixels(spectrum.H, spectrum.W)
FrameVoxels == Voxels(spectrum.H, spectrum.W, spectrum.C)

\* The grayscale frame the detector searches.
Gray(b) == Array(_to_gray(spectrum.px[b], spectrum.H, spectrum.W, spectrum.C))

Dist2(p, r, c) == (p[2] - c) * (p[2] - c) + (p[1] - r) * (p[1] - r)

\* filtered and mask, as returned for one frame, satisfy
\* filtered = frame * (1 - mask) in every channel.
Suppressed(frame, filtered, mask) ==
    \A q \in FrameVoxels :
        /\ filtered[q] = frame[q] * (One - mask[q[1], q[2], 0])
        /\ \A k \in 0 .. 2 : mask[q[1], q[2], k] = mask[q[1], q[2], 0]

\* C1: in both nodes, for every frame, pixel and channel, the returned
\* filtered value is frame * (1 - mask) for the mask returned for that frame,
\* and the mask value of a pixel is the same in every channel.
C1_FilteredIsFrameTimesOneMinusMask ==
    /\ AutoDone =>
           \A b \in Frames :
               Suppressed(spectrum.px[b], auto_out.filtered[b], auto_out.mask[b])
    /\ ManualReturned =>
           \A b \in Frames :
               Suppressed(spectrum.px[b], manual_out.filtered[b], manual_out.mask[b])

\* Both nodes have returned for a colour batch, and each has attenuated a
\* non-zero sample by a mask value strictly between 0 and 1.
PartlySuppressed(frame, mask) ==
    \E q \in FrameVoxels :
        frame[q] # 0 /\ mask[q[1], q[2], 0] > 0 /\ mask[q[1], q[2], 0] < One

C1_Witness ==
    /\ pc = "round_done" /\ manual_out.status = "returned" /\ spectrum.C = 3
    /\ \E b \in Frames : PartlySuppressed(spectrum.px[b], auto_out.mask[b])
    /\ \E b \in Frames : PartlySuppressed(spectrum.px[b], manual_out.mask[b])

\* The maximum of gray over the pixels of the frame within h rows and h
\* columns of p.
WindowMax(gray, p, h) ==
    SetMax({gray[q] : q \in {u \in FramePixels :
                                 Abs(u[1] - p[1]) <= h /\ Abs(u[2] - p[2]) <= h}})

GlobalMax(gray) == SetMax({gray[q] : q \in FramePixels})

InDCDisk(p) ==
    Dist2(p, spectrum.H \div 2, spectrum.W \div 2)
        <= auto_args.protect_dc * auto_args.protect_dc

\* p is a peak of the grayscale frame gray as the detector's contract has it.
IsPeak(gray, p) ==
    LET side == Max2(3, 2 * auto_args.min_distance + 1)
    IN  /\ gray[p] = WindowMax(gray, p, (side - 1) \div 2)
        /\ gray[p] * auto_args.threshold_rel[2]
               >= auto_args.threshold_rel[1] * GlobalMax(gray)
        /\ ~(auto_args.protect_dc > 0 /\ InDCDisk(p))

RasterIndex(p) == p[1] * spectrum.W + p[2]

\* C3: the peak list of every frame holds exactly the pixels that equal
\* the maximum of their window of side max(3, 2d+1), reach t times the
\* global maximum and are outside the DC disk, each once, in raster order
\* as (row, col); plateau pixels are all listed.
C3_PeaksAreWindowMaxima ==
    AutoDone =>
        \A b \in Frames :
            LET pk   == auto_out.peaks[b]
                gray == Gray(b)
            IN  /\ \A i \in 1 .. Len(pk) : pk[i] \in FramePixels /\ IsPeak(gray, pk[i])
                /\ \A p \in FramePixels : IsPeak(gray, p) => \E i \in 1 .. Len(pk) : pk[i] = p
                /\ \A i \in 1 .. Len(pk) - 1 : RasterIndex(pk[i]) < RasterIndex(pk[i + 1])

\* A plateau: two equal neighbours are both listed, while the rest of the
\* frame is below the threshold, and a window wider than 3 is in use.
C3_Witness ==
    /\ AutoDone /\ auto_args.min_distance = 2
    /\ \E b \in Frames :
           LET pk   == auto_out.peaks[b]
               gray == Gray(b)
           IN  /\ Len(pk) = 2
               /\ pk[1][1] = pk[2][1] /\ pk[2][2] = pk[1][2] + 1
               /\ \E p \in FramePixels : gray[p] < gray[pk[1]]

\* C4: with protect_dc = p > 0 no returned peak is within p of the frame
\* centre (height/2, width/2); the centre itself is never a peak.
C4_NoPeakInDCDisk ==
    (AutoDone /\ auto_args.protect_dc > 0) =>
        \A b \in Frames :
            \A i \in 1 .. Len(auto_out.peaks[b]) :
                /\ ~InDCDisk(auto_out.peaks[b][i])
                /\ auto_out.peaks[b][i] # <<spectrum.H \div 2, spectrum.W \div 2>>

\* The global maximum sits alone at the centre of a wide frame and is not
\* reported, while protect_dc > 0.
C4_Witness ==
    /\ AutoDone /\ auto_args.protect_dc > 0 /\ spectrum.H # spectrum.W
    /\ \E b \in Frames :
           LET centre == <<spectrum.H \div 2, spectrum.W \div 2>>
               gray   == Gray(b)
           IN  /\ \A p \in FramePixels \ {centre} : gray[p] < gray[centre]
               /\ \A i \in 1 .. Len(auto_out.peaks[b]) : auto_out.peaks[b][i] # centre

\* C10: with protect_dc = 0, a frame whose gray values are all >= 0 has a
\* peak, whatever the threshold in [0.05, 1]; an all-zero frame has every
\* pixel as a peak.
C10_NonNegativeFrameHasPeak ==
    (AutoDone /\ auto_args.protect_dc = 0) =>
        \A b \in Frames :
            LET gray == Gray(b)
            IN  /\ (\A p \in FramePixels : gray[p] >= 0) => auto_out.peaks[b] # <<>>
                /\ (\A p \in FramePixels : gray[p] = 0)
                       => Len(auto_out.peaks[b]) = spectrum.H * spectrum.W

\* An all-zero frame went through the detector with protect_dc = 0.
C10_Witness ==
    /\ AutoDone /\ auto_args.protect_dc = 0
    /\ \E b \in Frames : \A p \in FramePixels : Gray(b)[p] = 0

\* The objects of the JSON array text, or <<>> when text is no JSON array.
ArrayOf(text) ==
    LET e == json_loads(text)
    IN  IF e.ok /\ e.val.kind = "list" THEN e.val.items ELSE <<>>

\* obj is the JSON object {"x": col, "y": row, "r": radius}.
IsPointObject(obj, row, col, radius) ==
    /\ obj.kind = "dict"
    /\ obj.keys = <<"x", "y", "r">>
    /\ obj.items = <<PyInt(col), PyInt(row), PyInt(radius)>>

\* objs lists one object per peak of pk, in the order of pk.
ListsPeaks(objs, pk) ==
    /\ Len(objs) = Len(pk)
    /\ \A i \in 1 .. Len(pk) :
           IsPointObject(objs[i], pk[i][1], pk[i][2], auto_args.notch_radius)

\* The peaks of all the frames of the call, in detection order.
RECURSIVE PeaksFrom(_)
PeaksFrom(b) ==
    IF b >= spectrum.B THEN <<>> ELSE auto_out.peaks[b] \o PeaksFrom(b + 1)

\* C8 as stated: peak_positions is a JSON array with one object
\* {"x": col, "y": row, "r": notch_radius} per peak detected during the
\* call, in detection order, for batches of any size.
C8_PeakPositionsListAllPeaks ==
    AutoDone =>
        LET e == json_loads(auto_out.peak_positions)
        IN  e.ok /\ e.val.kind = "list" /\ ListsPeaks(e.val.items, PeaksFrom(0))

\* C8 amended: peak_positions is a JSON array with one object
\* {"x": col, "y": row, "r": notch_radius} per peak detected in the first
\* frame of the batch, in detection order; the peaks of later frames are
\* not in it.
C8_PeakPositionsListFirstFramePeaks ==
    AutoDone =>
        LET e == json_loads(auto_out.peak_positions)
        IN  e.ok /\ e.val.kind = "list" /\ ListsPeaks(e.val.items, auto_out.peaks[0])

\* A batch of two frames whose peak lists differ, neither empty.
C8_Witness ==
    /\ AutoDone /\ spectrum.B = 2
    /\ auto_out.peaks[0] # <<>> /\ auto_out.peaks[1] # <<>>
    /\ auto_out.peaks[0] # auto_out.peaks[1]

\* The mask returned for frame b by each node, as an H x W array.
AutoMask(b) == [p \in FramePixels |-> auto_out.mask[b][p[1], p[2], 0]]
ManualMaskOut(b) == [p \in FramePixels |-> manual_out.mask[b][p[1], p[2], 0]]

RoundTrip ==
    /\ pc = "round_done"
    /\ auto_args.feather = 0
    /\ manual_args.feather = 0

\* C6 as stated: peak_positions fed to the manual node, feather 0 and all
\* other settings equal, reproduces for every frame the mask of the
\* automatic node.
C6_RoundTripSameSettings ==
    (RoundTrip /\ manual_args.protect_dc = auto_args.protect_dc) =>
        /\ manual_out.status = "returned"
        /\ \A b \in Frames : ManualMaskOut(b) = AutoMask(b)

\* C6 amended: peak_positions fed to the manual node with feather 0 and the
\* manual protect_dc at 0 reproduces the mask the automatic node produced,
\* with feather 0, for the first frame of the batch.
C6_RoundTripFirstFrameNoDC ==
    (RoundTrip /\ manual_args.protect_dc = 0) =>
        /\ manual_out.status = "returned"
        /\ \A b \in Frames : manual_out.mask[b] = auto_out.mask[0]

\* A round trip of a wide frame, the automatic node excluding a DC disk,
\* through a mask that is neither empty nor full.
C6_Witness ==
    /\ RoundTrip /\ manual_args.protect_dc = 0 /\ auto_args.protect_dc > 0
    /\ spectrum.H # spectrum.W
    /\ auto_out.peaks[0] # <<>>
    /\ \E p \in FramePixels : AutoMask(0)[p] = One
    /\ \E p \in FramePixels : AutoMask(0)[p] = 0

\* p is within radius of (row, col).
Within(p, row, col, radius) == Dist2(p, row, col) <= radius * radius

\* The mask array is 1 on the union of the circles (<<row, col, radius>>)
\* and 0 elsewhere.
IsUnionOf(mask, circles) ==
    \A p \in FramePixels :
        mask[p] = IF \E i \in 1 .. Len(circles) :
                        Within(p, circles[i][1], circles[i][2], circles[i][3])
                  THEN One ELSE 0

\* The circles each node hands to its mask loop.
AutoCircles(b) ==
    [i \in 1 .. Len(auto_out.peaks[b]) |->
        <<auto_out.peaks[b][i][1], auto_out.peaks[b][i][2], auto_args.notch_radius>>]
ManualCircles ==
    PointCircles(ParsePoints(manual_args.notch_points))
        \o (IF manual_args.protect_dc > 0
            THEN <<<<spectrum.H \div 2, spectrum.W \div 2, manual_args.protect_dc>>>>
            ELSE <<>>)

InUnitRange(mask) == \A p \in FramePixels : mask[p] >= 0 /\ mask[p] <= One

\* C2: whatever the circles (overlapping, partly or wholly outside the
\* frame, of radius 0), a mask built with feather = 0 is exactly 1 on the
\* pixels within the radius of some centre and exactly 0 on every other
\* pixel; no mask value is ever outside [0,1].
C2_HardMaskIsUnionOfDisks ==
    /\ AutoDone =>
           \A b \in Frames :
               /\ InUnitRange(AutoMask(b))
               /\ auto_args.feather = 0 => IsUnionOf(AutoMask(b), AutoCircles(b))
    /\ ManualReturned =>
           LET circles == ManualCircles
           IN  \A b \in Frames :
                   /\ InUnitRange(ManualMaskOut(b))
                   /\ manual_args.feather = 0 => IsUnionOf(ManualMaskOut(b), circles)

\* Two circles that overlap without either holding the other, and a pixel
\* outside both, in a hard mask.
C2_Witness ==
    /\ pc = "manual_done" /\ manual_out.status = "returned"
    /\ manual_args.feather = 0 /\ manual_args.protect_dc = 0
    /\ LET c == ManualCircles
       IN  /\ Len(c) = 2
           /\ \E p \in FramePixels :
                  Within(p, c[1][1], c[1][2], c[1][3]) /\ Within(p, c[2][1], c[2][2], c[2][3])
           /\ \E p \in FramePixels :
                  Within(p, c[1][1], c[1][2], c[1][3]) /\ ~Within(p, c[2][1], c[2][2], c[2][3])
           /\ \E p \in FramePixels :
                  ~Within(p, c[1][1], c[1][2], c[1][3]) /\ Within(p, c[2][1], c[2][2], c[2][3])
           /\ \E p \in FramePixels : ManualMaskOut(0)[p] = 0

\* The member of a point object, or default when the object has none.
Member(obj, key, default) ==
    IF \E i \in 1 .. Len(obj.keys) : obj.keys[i] = key
    THEN obj.items[CHOOSE i \in 1 .. Len(obj.keys) : obj.keys[i] = key].n
    ELSE default

\* text is a JSON array of point records whose members are integers.
IsPointArray(text) ==
    LET e == json_loads(text)
    IN  /\ e.ok
        /\ e.val.kind = "list"
        /\ \A i \in 1 .. Len(e.val.items) :
               /\ e.val.items[i].kind = "dict"
               /\ \A k \in 1 .. Len(e.val.items[i].keys) :
                      e.val.items[i].items[k].kind = "int"

\* p is in the circle of some point object of objs: centre (y, x), radius
\* r, 8 when r is absent.
InPointCircle(p, objs) ==
    \E i \in 1 .. Len(objs) :
        Within(p, Member(objs[i], "y", 0), Member(objs[i], "x", 0),
               Member(objs[i], "r", 8))

InManualDCDisk(p) ==
    /\ manual_args.protect_dc > 0
    /\ Within(p, spectrum.H \div 2, spectrum.W \div 2, manual_args.protect_dc)

\* C5: in manual mode with feather = 0 the mask of every frame is 1 on the
\* point circles (centre (y, x), radius r, 8 by default) and on the disk of
\* radius protect_dc at the frame centre when protect_dc > 0, and 0
\* elsewhere; with no points the centre disk is still suppressed (filtered
\* 0), and with no points and protect_dc = 0 filtered is the input frame.
C5_ManualMaskIsPointsAndDCDisk ==
    (pc = "manual_done" /\ manual_args.feather = 0
         /\ IsPointArray(manual_args.notch_points)) =>
        /\ manual_out.status = "returned"
        /\ LET objs == ArrayOf(manual_args.notch_points)
           IN  \A b \in Frames : \A q \in FrameVoxels :
                   LET p == <<q[1], q[2]>>
                       on == InPointCircle(p, objs) \/ InManualDCDisk(p)
                   IN  /\ \A k \in 0 .. 2 :
                              manual_out.mask[b][q[1], q[2], k] = IF on THEN One ELSE 0
                       /\ manual_out.filtered[b][q] =
                              IF on THEN 0 ELSE One * spectrum.px[b][q]

\* No points and protect_dc > 0: the centre disk is suppressed, the corner
\* of the frame is not, and both hold non-zero samples.
C5_Witness ==
    /\ pc = "manual_done" /\ manual_out.status = "returned"
    /\ manual_args.feather = 0 /\ manual_args.protect_dc > 0
    /\ manual_args.notch_points = EmptyArray
    /\ \E q \in FrameVoxels :
           /\ InManualDCDisk(<<q[1], q[2]>>)
           /\ spectrum.px[0][q] # 0 /\ manual_out.filtered[0][q] = 0
    /\ \E q \in FrameVoxels :
           /\ ~InManualDCDisk(<<q[1], q[2]>>)
           /\ spectrum.px[0][q] # 0 /\ manual_out.filtered[0][q] # 0

\* What the node returns for the empty array, other settings unchanged.
EmptyArrayOutput ==
    apply_manual_notch(spectrum, [manual_args EXCEPT !.notch_points = EmptyArray])

\* C7: a notch_points text that is not a JSON array of point records with
\* integer members (no JSON, no array, or an array of other elements) never
\* raises, and gives the filtered frames and masks of "[]".
C7_MalformedTextIsEmptyArray ==
    (pc = "manual_done" /\ ~IsPointArray(manual_args.notch_points)) =>
        /\ manual_out.status = "returned"
        /\ manual_out = EmptyArrayOutput

\* The scenario: the sample at (10, 10), protect_dc = 20, feather = 0, and
\* the automatic node has returned.
Scenario ==
    /\ AutoDone
    /\ spectrum = Batch(1, 64, 64, 1, 0, {<<0, 10, 10, 0, 1>>})
    /\ auto_args = [threshold_rel |-> <<1, 2>>, min_distance |-> 4,
                    notch_radius |-> 3, protect_dc |-> 20, feather |-> 0]

\* C9 as stated: the peak at (10, 10) is inside the DC disk and excluded:
\* the peak list is [], the mask is all zero and filtered is the input.
C9_ScenarioPeakExcluded ==
    Scenario =>
        /\ auto_out.peaks[0] = <<>>
        /\ auto_out.peak_positions = EmptyArray
        /\ \A p \in FramePixels : AutoMask(0)[p] = 0
        /\ \A q \in FrameVoxels : auto_out.filtered[0][q] = One * spectrum.px[0][q]

\* C9 amended: the peak at (10, 10) is outside the DC disk (22^2 + 22^2 >
\* 20^2) and kept: the peak list is [{"x": 10, "y": 10, "r": 3}], the mask
\* is 1 within 3 of (10, 10) and 0 elsewhere, and filtered is all zero.
C9_ScenarioPeakKept ==
    Scenario =>
        /\ auto_out.peaks[0] = <<<<10, 10>>>>
        /\ Len(ArrayOf(auto_out.peak_positions)) = 1
        /\ IsPointObject(ArrayOf(auto_out.peak_positions)[1], 10, 10, 3)
        /\ \A p \in FramePixels :
               AutoMask(0)[p] = IF Within(p, 10, 10, 3) THEN One ELSE 0
        /\ \A q \in FrameVoxels : auto_out.filtered[0][q] = 0

C9_Witness == Scenario /\ pc = "auto_done"

====
